---- MODULE Spec2Model ----
(***************************************************************************)
(* Model of amitools.vamos.machine.Machine: the fixed memory layout, the   *)
(* run stack, run() with its nested invocations from trap handlers, and    *)
(* the reset / invalid-access / trap-exception handlers.                   *)
(*                                                                         *)
(* The host is single-threaded: the thread that calls run() is the CPU     *)
(* thread.  `frames` is the host call stack of run() activations; the top  *)
(* frame is the only one that moves.  The CPU emulator and the memory      *)
(* object are external: a guest is any sequence of the guest events below. *)
(***************************************************************************)
EXTENDS Integers, Sequences, FiniteSets, TLC

(* ---- class constants of Machine ---- *)
run_reset_addr == 1024

run_max_nesting == 16

reset_exvec_addr == 1056

shutdown_trap_addr == 1058

ram_begin == 2048

(* number of exception vectors written by _init_base_mem *)
num_exc_vectors == 254

(* opcodes imported from .opcodes *)
op_reset == 20080

op_trap == 40960

(* trap id the trap table hands out for the shutdown trap (first setup) *)
shutdown_tid == 0

(* ---- bounds of the model ---- *)
(* constructor argument ram_size_kib *)
RamSizeKib == 4

(* deepest host call stack of run() activations explored *)
MaxDepth == 17

(* nesting depth up to which runs are started from arbitrary states;      *)
(* deeper runs are started from a fresh enclosing run only                 *)
MaxVaried == 1

(* number of run() calls explored at nesting <= MaxVaried *)
MaxRuns == 2

(* largest cycle count a slice returns (cycles_per_run) *)
CyclesPerRun == 2

(* largest max_cycles argument *)
MaxCyclesArg == 2

(* cap on the accumulated cycles of one run: a capped run cannot exceed it *)
MaxTotalCycles == MaxCyclesArg + CyclesPerRun - 1

ram_total == RamSizeKib * 1024

(* ---- sentinels ---- *)
NoSp == -1

NoError == [kind |-> "None", arg |-> 0]

NoCtx == [pc |-> -1, a7 |-> -1]

Err(kind, arg) == [kind |-> kind, arg |-> arg]

(* ---- memory ---- *)
(* stack pointers the host passes to run() / the guest loads into A7:      *)
(* inside RAM, the last long word of RAM, and the first address past RAM   *)
StackPtrs == {ram_begin + 256, ram_total - 4, ram_total}

VecAddrs == {8 + 4 * i : i \in 0 .. num_exc_vectors - 1}

(* 16-bit cells of the trampoline area and the words following it *)
CodeAddrs == {run_reset_addr + 2 * i : i \in 0 .. 2 * MaxDepth + 1}

(* 32-bit stack cells around the modelled stack pointers *)
StackCells ==
  {a \in ram_begin .. ram_total - 4 :
     /\ a % 4 = 0
     /\ \E s \in StackPtrs : a >= s - 12 /\ a <= s + 12}

Cells == {0, 4} \cup VecAddrs \cup CodeAddrs \cup StackCells

(* emu.Memory: an address outside the allocated RAM is invalid *)
IsValid(a) == a >= 0 /\ a < ram_total

(* m.w32 / m.w16 on a valid address *)
Poke(m, a, v) == [m EXCEPT ![a] = v]

(* stack addresses the model keeps cells for (or outside RAM) *)
InWindow(a) == ~IsValid(a) \/ a \in StackCells

(* ---- Machine._init_base_mem ---- *)
(* address written by iteration i of the exception vector loop: addr is   *)
(* set to 8 before the loop and the loop body does not change it           *)
ExcVecAddr(i) == 8

(* for i in xrange(254): m.w32(addr, self.reset_exvec_addr) *)
ExcVecLoop(m) ==
  [a \in DOMAIN m |->
     IF \E i \in 0 .. num_exc_vectors - 1 : ExcVecAddr(i) = a
       THEN reset_exvec_addr ELSE m[a]]

(* address written by iteration i of the run reset loop: addr += 2 *)
RunResetAddr(i) == run_reset_addr + 2 * i

(* for i in xrange(self.run_max_nesting): m.w16(addr, op_reset) *)
RunResetLoop(m) ==
  [a \in DOMAIN m |->
     IF \E i \in 0 .. run_max_nesting - 1 : RunResetAddr(i) = a
       THEN op_reset ELSE m[a]]

init_base_mem(m) ==
  LET m1 == ExcVecLoop(m)
      m2 == RunResetLoop(m1)
      m3 == Poke(m2, reset_exvec_addr, op_reset)
  IN  Poke(m3, shutdown_trap_addr, op_trap + shutdown_tid)

(* the memory after construction: zeroed RAM, then _init_base_mem *)
BaseMem == init_base_mem([a \in Cells |-> 0])

(* the cells written after construction: the zero page and the stacks;    *)
(* every other cell keeps what construction left in it                    *)
WrittenCells == {0, 4} \cup StackCells

(* m.r32 / m.r16 on a valid address *)
Peek(m, a) == IF a \in DOMAIN m THEN m[a] ELSE BaseMem[a]

(* the address holds a RESET opcode the CPU can execute *)
HoldsReset(m, a) == a \in CodeAddrs /\ Peek(m, a) = op_reset

HoldsShutdownTrap(m, a) == a \in CodeAddrs /\ Peek(m, a) = op_trap + shutdown_tid

(* ---- state ---- *)
VARIABLES
  mem,                \* emu.Memory: address -> value of the cells written
  mem0, mem4,         \* Machine.mem0, Machine.mem4
  shutdown_func,      \* Machine.shutdown_func is set
  raise_on_main_run,  \* Machine.raise_on_main_run
  run_states,         \* Machine.run_states
  cpu,                \* emu.CPU: the CPU context
  end_req,            \* cpu.end() was called in the current slice
  frames,             \* host call stack: the activations of run()
  last,               \* how the most recent run() call ended (observer)
  run_calls,          \* run() calls made at nesting <= MaxVaried so far (observer)
  zero_written        \* (mem0, mem4) as of the last completed reset pulse (observer)

vars ==
  <<mem, mem0, mem4, shutdown_func, raise_on_main_run, run_states, cpu,
    end_req, frames, last, run_calls, zero_written>>

(* RunState.__init__ *)
RunState(pc, sp, ret_addr) ==
  [pc |-> pc, sp |-> sp, ret_addr |-> ret_addr, error |-> NoError,
   done |-> FALSE, cycles |-> 0]

NoState == RunState(0, 0, 0)

NoLast ==
  [kind |-> "none", nesting |-> 0, state |-> NoState, entry_cpu |-> NoCtx,
   max_cycles |-> 0, raised |-> NoError, pushed |-> FALSE, hooks |-> 0,
   caught |-> NoError]

Top == frames[Len(frames)]

SetTop(f) == [frames EXCEPT ![Len(frames)] = f]

(* Machine.get_run_nesting *)
get_run_nesting == Len(run_states)

(* Machine.get_cur_run_state: the assertion and the value *)
CurRunStateAssert(rs) == Len(rs) > 0

get_cur_run_state(rs) == rs[Len(rs)]

SetCur(rs, s) == [rs EXCEPT ![Len(rs)] = s]

(* the innermost run is at a nesting whose events are explored in full;   *)
(* deeper runs explore the events that depend on the nesting               *)
Shallow == Len(frames) <= MaxVaried + 1

(* host code is running and may call the Machine API: the top-level caller *)
(* or a trap handler of the innermost run                                  *)
HostActive == IF Len(frames) = 0 THEN TRUE ELSE Top.pos = "trap"

(* Machine.__init__ *)
Init ==
  /\ mem = [a \in WrittenCells |-> BaseMem[a]]
  /\ mem0 = 0
  /\ mem4 = 0
  /\ shutdown_func = FALSE
  /\ raise_on_main_run \in BOOLEAN
  /\ run_states = <<>>
  /\ cpu = [pc |-> 0, a7 |-> 0]
  /\ end_req = FALSE
  /\ frames = <<>>
  /\ last = NoLast
  /\ run_calls = 0
  /\ zero_written = <<0, 0>>

(* Machine.set_zero_mem; explored while a later run() can still follow *)
set_zero_mem(m0, m4) ==
  /\ HostActive
  /\ Shallow
  /\ run_calls < MaxRuns
  /\ mem0' = m0
  /\ mem4' = m4
  /\ last' = NoLast
  /\ UNCHANGED <<mem, shutdown_func, raise_on_main_run, run_states, cpu,
                 end_req, frames, zero_written, run_calls>>

(* Machine.set_shutdown_hook; explored while a later run() can still      *)
(* follow                                                                  *)
set_shutdown_hook(f) ==
  /\ Len(frames) = 0
  /\ run_calls < MaxRuns
  /\ shutdown_func' = f
  /\ last' = NoLast
  /\ UNCHANGED <<mem, mem0, mem4, raise_on_main_run, run_states, cpu,
                 end_req, frames, zero_written, run_calls>>

(* ---- Machine._invalid_mem_access ---- *)
(* faulty variant: the pending error is not looked at *)
invalid_mem_access_always(rs, addr) ==
  SetCur(rs, [get_cur_run_state(rs) EXCEPT
                !.error = Err("InvalidMemoryAccessError", addr),
                !.done = TRUE])

(* the run stack after the notification; rs is non-empty *)
invalid_mem_access(rs, addr) ==
  LET run_state == get_cur_run_state(rs)
  IN  IF run_state.error # NoError THEN rs
      ELSE SetCur(rs, [run_state EXCEPT
                         !.error = Err("InvalidMemoryAccessError", addr),
                         !.done = TRUE])

(* whether that notification calls cpu.end() *)
InvalidEnds(rs) == get_cur_run_state(rs).error = NoError

(* ---- Machine.run: entry up to the reset pulse (lines 274-315) ---- *)
(* return reset opcode for this run *)
RetAddr(nesting) == run_reset_addr + nesting * 4

(* get cpu context *)
SaveCtx(nesting, c) == IF nesting > 0 THEN c ELSE NoCtx

(* faulty variant: the stack pointer is shared as it is *)
RunSpSame(sp, c) == IF sp = NoSp THEN c.a7 ELSE sp

(* share stack with last run if not specified *)
RunSp(sp, c) == IF sp = NoSp THEN c.a7 - 4 ELSE sp

(* faulty variant: the shutdown trap address is pushed at every nesting *)
PushesShutdownAlways(nesting) == shutdown_func

(* the shutdown trap address is pushed, too *)
PushesShutdown(nesting) == shutdown_func /\ nesting = 0

(* store return address on stack (and the shutdown trap address): the     *)
(* memory, the run stack and the stack pointer after the two writes.  An  *)
(* invalid address makes emu.Memory call _invalid_mem_access instead of   *)
(* writing; `bad` says that it did                                        *)
WireStack(m, rs, nesting, sp, ret_addr) ==
  LET v1   == IsValid(sp)
      m1   == IF v1 THEN Poke(m, sp, ret_addr) ELSE m
      rs1  == IF v1 \/ ~CurRunStateAssert(rs) THEN rs
              ELSE invalid_mem_access(rs, sp)
      push == PushesShutdown(nesting)
      sp2  == IF push THEN sp - 4 ELSE sp
      v2   == ~push \/ IsValid(sp2)
      m2   == IF push /\ v2 THEN Poke(m1, sp2, shutdown_trap_addr) ELSE m1
      rs2  == IF v2 \/ ~CurRunStateAssert(rs1) THEN rs1
              ELSE invalid_mem_access(rs1, sp2)
  IN  [mem |-> m2, rs |-> rs2, sp |-> sp2, bad |-> ~v1 \/ ~v2,
       mem_before_bad |-> IF ~v1 THEN m ELSE m1,
       ends |-> \/ ~v1 /\ CurRunStateAssert(rs) /\ InvalidEnds(rs)
                \/ ~v2 /\ CurRunStateAssert(rs1) /\ InvalidEnds(rs1)]

(* cpu.pulse_reset: loads SP and PC from the zero page *)
pulse_reset(c, m) == [c EXCEPT !.a7 = Peek(m, 0), !.pc = Peek(m, 4)]

(* entry point of the guest code *)
GuestPc == ram_begin

(* a run in its first slice with no cycle cap *)
FirstSlice(i) == frames[i].total_cycles = 0 /\ frames[i].max_cycles = 0

(* a run that has recorded nothing and runs on the default stack *)
FreshRun(i) ==
  /\ FirstSlice(i)
  /\ frames[i].sp = ram_begin + 256
  /\ run_states[i].error = NoError
  /\ ~run_states[i].done

(* trap handlers start nested runs from the first slice of uncapped runs;  *)
(* runs deeper than MaxVaried are started only where every enclosing run   *)
(* is fresh, nothing but the default stack cell was written, and that      *)
(* cell still holds the return address of the innermost run               *)
DeepOk(sp, max_cycles) ==
  /\ \A i \in 1 .. Len(frames) : FirstSlice(i)
  /\ Len(frames) > MaxVaried =>
       /\ sp = ram_begin + 256
       /\ max_cycles = 0
       /\ cpu.a7 = Top.sp
       /\ mem0 = 0 /\ mem4 = 0
       /\ ~shutdown_func
       /\ \A i \in 1 .. Len(frames) : FreshRun(i)
       /\ \A a \in StackCells \ {ram_begin + 256} : mem[a] = 0
       /\ mem[ram_begin + 256] = Top.ret_addr

(* run() without sp at nesting 0: raise ValueError("stack must be specified!") *)
run_value_error ==
  /\ Len(frames) = 0
  /\ get_run_nesting = 0
  /\ last' = [NoLast EXCEPT !.kind = "ValueError"]
  /\ UNCHANGED <<mem, mem0, mem4, shutdown_func, raise_on_main_run,
                 run_states, cpu, end_req, frames, zero_written, run_calls>>

(* run() at nesting 0 whose stack write is invalid: get_cur_run_state's   *)
(* assertion fails inside the invalid-access callback; here the           *)
(* AssertionError propagates out of run()                                 *)
run_assert_fail(sp) ==
  LET nesting == get_run_nesting
      w == WireStack(mem, run_states, nesting, sp, RetAddr(nesting))
  IN  /\ Len(frames) = 0
      /\ ~CurRunStateAssert(run_states)
      /\ w.bad
      /\ mem' = w.mem_before_bad
      /\ last' = [NoLast EXCEPT !.kind = "AssertionError"]
      /\ UNCHANGED <<mem0, mem4, shutdown_func, raise_on_main_run,
                     run_states, cpu, end_req, frames, zero_written, run_calls>>

(* run(pc, sp, max_cycles) up to and including cpu.pulse_reset(); where   *)
(* the callback's AssertionError does not propagate the write is dropped  *)
run_enter(pc, sp_arg, max_cycles) ==
  LET nesting  == get_run_nesting
      ret_addr == RetAddr(nesting)
      cpu_ctx  == SaveCtx(nesting, cpu)
      sp       == RunSp(sp_arg, cpu)
      w        == WireStack(mem, run_states, nesting, sp, ret_addr)
      m        == Poke(Poke(w.mem, 0, w.sp), 4, pc)
  IN  /\ HostActive
      /\ Len(frames) < MaxDepth
      /\ Len(frames) <= MaxVaried => run_calls < MaxRuns
      /\ sp_arg = NoSp => nesting > 0
      /\ InWindow(sp)
      /\ DeepOk(sp_arg, max_cycles)
      /\ mem' = m
      /\ cpu' = pulse_reset(cpu, m)
      /\ run_states' = w.rs
      /\ end_req' = (end_req \/ w.ends)
      /\ frames' = Append(frames,
           [nesting |-> nesting, pc |-> pc, sp |-> w.sp, ret_addr |-> ret_addr,
            cpu_ctx |-> cpu_ctx, entry_cpu |-> IF nesting > 0 THEN cpu ELSE NoCtx,
            max_cycles |-> max_cycles,
            total_cycles |-> 0, pos |-> "pulse",
            auto_rts |-> FALSE, exc |-> NoError,
            pushed |-> PushesShutdown(nesting), hooks |-> 0,
            sp_arg |-> sp_arg])
      /\ last' = NoLast
      /\ run_calls' = IF Len(frames) <= MaxVaried THEN run_calls + 1 ELSE run_calls
      /\ UNCHANGED <<mem0, mem4, shutdown_func, raise_on_main_run, zero_written>>

(* ---- Machine.run: after the reset pulse (lines 316-333) ---- *)
(* faulty variant: only the word at address 0 is written back *)
ZeroRestoreLow(m, m0, m4) == Poke(m, 0, m0)

(* faulty variant: the two words are written back to each other's address *)
ZeroRestoreSwapped(m, m0, m4) == Poke(Poke(m, 0, m4), 4, m0)

(* restore mem0,4 *)
ZeroRestore(m, m0, m4) == Poke(Poke(m, 0, m0), 4, m4)

(* create run state for this run and push it; enter the execution loop *)
run_push ==
  /\ Len(frames) > 0
  /\ Top.pos = "pulse"
  /\ mem' = ZeroRestore(mem, mem0, mem4)
  /\ zero_written' = <<mem0, mem4>>
  /\ run_states' = Append(run_states, RunState(Top.pc, Top.sp, Top.ret_addr))
  /\ frames' = SetTop([Top EXCEPT !.pos = "exec"])
  /\ end_req' = FALSE
  /\ last' = NoLast
  /\ UNCHANGED <<mem0, mem4, shutdown_func, raise_on_main_run, cpu, run_calls>>

(* ---- Machine._reset_opcode_handler ---- *)
(* the run stack after the CPU executed a RESET opcode: c is the CPU       *)
(* context with PC past the opcode, m the memory                           *)
reset_opcode_handler(rs, c, m) ==
  LET pc        == c.pc - 2
      sp        == c.a7
      \* callee_pc = self.mem.r32(sp): an invalid sp is notified first
      rs1       == IF IsValid(sp) THEN rs ELSE invalid_mem_access(rs, sp)
      callee_pc == IF IsValid(sp) THEN Peek(m, sp) ELSE 0
      run_state == get_cur_run_state(rs1)
  IN  IF pc = run_state.ret_addr
        THEN SetCur(rs1, [run_state EXCEPT !.done = TRUE])
      ELSE IF pc = reset_exvec_addr
        THEN SetCur(rs1, [run_state EXCEPT
               !.error = Err("InvalidCPUStateError: m68k Exception", callee_pc \div 4),
               !.done = TRUE])
      ELSE SetCur(rs1, [run_state EXCEPT
               !.error = Err("InvalidCPUStateError: Unexpected RESET opcode", pc),
               !.done = TRUE])

(* ---- Machine._trap_exc_handler ---- *)
(* faulty variant: the error is stored but the run is not marked done *)
trap_exc_handler_not_done(rs, exc) ==
  SetCur(rs, [get_cur_run_state(rs) EXCEPT !.error = exc])

(* sys.exc_info() is a non-empty tuple: the pending exception is stored *)
trap_exc_handler(rs, exc) ==
  LET run_state == get_cur_run_state(rs)
  IN  SetCur(rs, [run_state EXCEPT !.error = exc, !.done = TRUE])

(* ---- the guest inside cpu.execute ---- *)
GuestRuns == Len(frames) > 0 /\ Top.pos = "exec" /\ ~end_req

(* Machine._shutdown_trap: self.shutdown_func() is called in the handler   *)
(* of an auto_rts trap; calling None raises TypeError inside the handler   *)
shutdown_trap(f) ==
  IF shutdown_func
    THEN [f EXCEPT !.pos = "trap", !.auto_rts = TRUE, !.hooks = @ + 1]
    ELSE [f EXCEPT !.pos = "trap_exc", !.auto_rts = TRUE,
                   !.exc = Err("TypeError", 0)]

(* the CPU arrives at address t: a RESET opcode there calls the reset      *)
(* handler, the shutdown trap opcode enters its host handler (auto_rts),   *)
(* anything else is more guest code                                        *)
Arrive(t, c, rs) ==
  LET c2 == [c EXCEPT !.pc = t + 2]
  IN  IF HoldsReset(mem, t)
        THEN /\ cpu' = c2
             /\ run_states' = reset_opcode_handler(rs, c2, mem)
             /\ end_req' = TRUE
             /\ frames' = SetTop([Top EXCEPT !.pos = "exec", !.auto_rts = FALSE])
      ELSE IF HoldsShutdownTrap(mem, t)
        THEN /\ cpu' = c2
             /\ run_states' = rs
             /\ end_req' = end_req
             /\ frames' = SetTop(shutdown_trap(Top))
      ELSE /\ cpu' = [c EXCEPT !.pc = t]
           /\ run_states' = rs
           /\ end_req' = end_req
           /\ frames' = SetTop([Top EXCEPT !.pos = "exec", !.auto_rts = FALSE])

(* RTS: pop the return address from [A7] and continue there *)
Rts ==
  IF IsValid(cpu.a7)
    THEN Arrive(Peek(mem, cpu.a7), [cpu EXCEPT !.a7 = cpu.a7 + 4], run_states)
  ELSE /\ cpu' = [cpu EXCEPT !.a7 = cpu.a7 + 4, !.pc = 0]
       /\ run_states' = invalid_mem_access(run_states, cpu.a7)
       /\ end_req' = (end_req \/ InvalidEnds(run_states))
       /\ frames' = SetTop([Top EXCEPT !.pos = "exec", !.auto_rts = FALSE])

(* the guest's stack pointer is the one its run started with *)
StackBalanced == cpu.a7 = get_cur_run_state(run_states).sp

(* the guest returns from its subroutine *)
guest_rts ==
  /\ GuestRuns
  /\ StackBalanced
  /\ Rts
  /\ last' = NoLast
  /\ UNCHANGED <<mem, mem0, mem4, shutdown_func, raise_on_main_run, zero_written, run_calls>>

(* exception numbers the guest raises: bus error and TRAP #3 *)
ExcNums == {2, 35}

(* the guest takes m68k exception n: the CPU pushes a four-word frame and  *)
(* continues at the address its vector holds                               *)
guest_exception(n) ==
  /\ GuestRuns
  /\ StackBalanced
  /\ cpu.a7 - 8 \in StackCells
  /\ Arrive(Peek(mem, 4 * n), [cpu EXCEPT !.a7 = cpu.a7 - 8], run_states)
  /\ last' = NoLast
  /\ UNCHANGED <<mem, mem0, mem4, shutdown_func, raise_on_main_run, zero_written, run_calls>>

(* RESET opcodes the guest may jump to on its own *)
JumpTargets == {run_reset_addr + 2}

guest_jump(t) ==
  /\ GuestRuns
  /\ Arrive(t, cpu, run_states)
  /\ last' = NoLast
  /\ UNCHANGED <<mem, mem0, mem4, shutdown_func, raise_on_main_run, zero_written, run_calls>>

(* the guest or the host code of a trap handler touches an address outside *)
(* RAM; an instruction that faulted may fault again before the slice ends  *)
invalid_access(addr) ==
  /\ Len(frames) > 0
  /\ Top.pos \in {"exec", "trap"}
  /\ Top.pos = "exec" /\ end_req => get_cur_run_state(run_states).error # NoError
  /\ Shallow
  /\ ~IsValid(addr)
  /\ run_states' = invalid_mem_access(run_states, addr)
  /\ end_req' = (end_req \/ InvalidEnds(run_states))
  /\ last' = NoLast
  /\ UNCHANGED <<mem, mem0, mem4, shutdown_func, raise_on_main_run, cpu,
                 frames, zero_written, run_calls>>

(* the guest executes a trap opcode: its host handler starts *)
guest_trap ==
  /\ GuestRuns
  /\ frames' = SetTop([Top EXCEPT !.pos = "trap", !.auto_rts = FALSE])
  /\ last' = NoLast
  /\ UNCHANGED <<mem, mem0, mem4, shutdown_func, raise_on_main_run,
                 run_states, cpu, end_req, zero_written, run_calls>>

(* ---- host trap handlers ---- *)
(* the handler returns; an auto_rts trap then returns from the subroutine *)
trap_return ==
  /\ Len(frames) > 0
  /\ Top.pos = "trap"
  /\ IF Top.auto_rts /\ ~end_req
       THEN Rts
       ELSE /\ frames' = SetTop([Top EXCEPT !.pos = "exec", !.auto_rts = FALSE])
            /\ UNCHANGED <<cpu, run_states, end_req>>
  /\ last' = NoLast
  /\ UNCHANGED <<mem, mem0, mem4, shutdown_func, raise_on_main_run, zero_written, run_calls>>

(* the handler catches the NestedCPURunError of its nested run *)
host_catch ==
  /\ Len(frames) > 0
  /\ Top.pos = "trap_exc"
  /\ Top.exc.kind = "NestedCPURunError"
  /\ frames' = SetTop([Top EXCEPT !.pos = "trap", !.exc = NoError])
  /\ last' = NoLast
  /\ UNCHANGED <<mem, mem0, mem4, shutdown_func, raise_on_main_run,
                 run_states, cpu, end_req, zero_written, run_calls>>

(* an error leaves the handler: the trap table calls _trap_exc_handler *)
TrapExc(exc) ==
  /\ run_states' = trap_exc_handler(run_states, exc)
  /\ end_req' = TRUE
  /\ frames' = SetTop([Top EXCEPT !.pos = "exec", !.exc = NoError, !.auto_rts = FALSE])
  /\ last' = NoLast
  /\ UNCHANGED <<mem, mem0, mem4, shutdown_func, raise_on_main_run, cpu,
                 zero_written, run_calls>>

(* the handler raises an error of its own and does not catch it *)
host_raise ==
  /\ Len(frames) > 0
  /\ Top.pos = "trap"
  /\ Shallow
  /\ TrapExc(Err("HostError", 0))

(* the error in flight (of a nested run, or of calling a missing shutdown *)
(* hook) is not caught                                                     *)
trap_exc ==
  /\ Len(frames) > 0
  /\ Top.pos = "trap_exc"
  /\ TrapExc(Top.exc)

(* ---- Machine.run: the execution loop (lines 330-345) ---- *)
(* faulty variant: the cap must be exceeded, not reached *)
LoopBreakLate(max_cycles, total_cycles) == max_cycles > 0 /\ total_cycles > max_cycles

(* end after enough cycles *)
LoopBreak(max_cycles, total_cycles) == max_cycles > 0 /\ total_cycles >= max_cycles

(* ErrorReporter.report_error(e) in the except clause of the loop: the     *)
(* error is captured into the run state                                    *)
report_error(rs, e) ==
  LET run_state == get_cur_run_state(rs)
  IN  IF run_state.error # NoError THEN rs
      ELSE SetCur(rs, [run_state EXCEPT !.error = e])

(* the loop ends after a slice that brought the total to total_cycles *)
LoopEnds(max_cycles, total_cycles, run_state) ==
  LoopBreak(max_cycles, total_cycles) \/ run_state.done

(* cpu.execute(cycles_per_run) returns c cycles and the loop goes on: the  *)
(* next slice starts.  Explored as the first slice of a run only           *)
exec_return(c) ==
  LET total == Top.total_cycles + c
  IN  /\ Len(frames) > 0
      /\ Top.pos = "exec"
      /\ total <= MaxTotalCycles
      /\ Top.total_cycles = 0
      /\ ~LoopEnds(Top.max_cycles, total, get_cur_run_state(run_states))
      /\ frames' = SetTop([Top EXCEPT !.total_cycles = total])
      /\ end_req' = FALSE
      /\ last' = NoLast
      /\ UNCHANGED <<mem, mem0, mem4, shutdown_func, raise_on_main_run,
                     run_states, cpu, zero_written, run_calls>>

(* ---- Machine.run: after the loop (lines 347-375) ---- *)
(* faulty variant: the saved context is never written back *)
RestoreCtxSkipped(cpu_ctx, c) == c

(* restore cpu context *)
RestoreCtx(cpu_ctx, c) == IF cpu_ctx # NoCtx THEN cpu_ctx ELSE c

(* faulty variant: the nesting is ignored *)
RaisesOnMainOnly(error, nesting) == error # NoError /\ raise_on_main_run

(* faulty variant: raise_on_main_run is ignored *)
RaisesNestedOnly(error, nesting) == error # NoError /\ nesting > 0

(* if run_state has error and we are not a top-level raise an error *)
RaisesNested(error, nesting) ==
  error # NoError /\ (nesting > 0 \/ raise_on_main_run)

(* faulty variant: the run state stays on the run stack *)
PopSkipped(rs) == rs

(* self.run_states.pop() *)
Pop(rs) == SubSeq(rs, 1, Len(rs) - 1)

(* raise NestedCPURunError(pc, run_state.error) *)
NestedCPURunError(pc, error) ==
  [kind |-> "NestedCPURunError", arg |-> pc, inner |-> error]

(* the rest of run() once the loop is left with the run stack rs and       *)
(* total_cycles: the run state is popped and returned, or wrapped into a   *)
(* NestedCPURunError that lands in the trap handler of the enclosing run   *)
AfterLoop(rs, total_cycles, caught) ==
  LET run_state == [get_cur_run_state(rs) EXCEPT !.cycles = total_cycles]
      restored  == RestoreCtx(Top.cpu_ctx, cpu)
      raises    == RaisesNested(run_state.error, Top.nesting)
      nested    == NestedCPURunError(restored.pc, run_state.error)
      rest      == SubSeq(frames, 1, Len(frames) - 1)
  IN  /\ cpu' = restored
      /\ run_states' = Pop(rs)
      /\ frames' = IF raises /\ Len(rest) > 0
                     THEN [rest EXCEPT ![Len(rest)] =
                             [@ EXCEPT !.pos = "trap_exc", !.exc = nested]]
                     ELSE rest
      /\ end_req' = FALSE
      /\ last' = [kind |-> IF raises THEN "raised" ELSE "returned",
                  nesting |-> Top.nesting, state |-> run_state,
                  entry_cpu |-> Top.entry_cpu, max_cycles |-> Top.max_cycles,
                  raised |-> IF raises THEN nested ELSE NoError,
                  pushed |-> Top.pushed, hooks |-> Top.hooks,
                  caught |-> caught]
      /\ UNCHANGED <<mem, mem0, mem4, shutdown_func, raise_on_main_run,
                     zero_written, run_calls>>

(* cpu.execute returns c cycles and the loop ends (break, or done) *)
run_exit(c) ==
  LET total == Top.total_cycles + c
  IN  /\ Len(frames) > 0
      /\ Top.pos = "exec"
      /\ total <= MaxTotalCycles
      /\ LoopEnds(Top.max_cycles, total, get_cur_run_state(run_states))
      /\ AfterLoop(run_states, total, NoError)

(* an exception propagates out of cpu.execute: except Exception as e *)
exec_raise ==
  /\ GuestRuns
  /\ Shallow
  /\ AfterLoop(report_error(run_states, Err("HostError", 1)), Top.total_cycles,
               Err("HostError", 1))

(* ---- the machine and its environment ---- *)
(* arguments of set_zero_mem: 0 and ExecBase on the Amiga *)
ZeroArgs == {<<0, 0>>, <<1, 2>>}

(* max_cycles arguments: no cap, or a cap *)
CycleArgs == {0, MaxCyclesArg}

(* sp arguments of a nested run: share the stack, a stack in RAM, or a    *)
(* stack outside RAM                                                       *)
NestedSpArgs == {NoSp, ram_begin + 256, ram_total}

SpArgs(nesting) == IF nesting = 0 THEN StackPtrs ELSE NestedSpArgs

Next ==
  \/ \E z \in ZeroArgs : set_zero_mem(z[1], z[2])
  \/ \E f \in BOOLEAN : set_shutdown_hook(f)
  \/ run_value_error
  \/ \E sp \in StackPtrs : run_assert_fail(sp)
  \/ \E sp \in SpArgs(get_run_nesting), k \in CycleArgs : run_enter(GuestPc, sp, k)
  \/ run_push
  \/ guest_rts
  \/ \E n \in ExcNums : guest_exception(n)
  \/ \E t \in JumpTargets : guest_jump(t)
  \/ invalid_access(ram_total)
  \/ guest_trap
  \/ trap_return
  \/ host_raise
  \/ host_catch
  \/ trap_exc
  \/ \E c \in 1 .. CyclesPerRun : exec_return(c)
  \/ \E c \in 1 .. CyclesPerRun : run_exit(c)
  \/ exec_raise

Spec == Init /\ [][Next]_vars

(* ---- properties ---- *)
(* a run() call has just ended by returning its RunState or by raising     *)
(* NestedCPURunError                                                       *)
RunEnded == last.kind \in {"returned", "raised"}

(* the innermost run() is between writing sp, pc to the zero page and      *)
(* writing mem0, mem4 back                                                 *)
MidReset == Len(frames) > 0 /\ Top.pos = "pulse"

(* C1: the run stack never holds more than run_max_nesting RunStates: a    *)
(* run() called with run_max_nesting runs stacked pushes no RunState.      *)
C1_NestingBound == Len(run_states) <= run_max_nesting

(* C2: when a run() started at nesting > 0 has ended, by returning or by   *)
(* raising NestedCPURunError, the CPU context equals the context at the    *)
(* entry of that run().                                                    *)
C2_ContextRestored ==
  RunEnded /\ last.nesting > 0 => cpu = last.entry_cpu

(* a nested run on a stack of its own, whose reset pulse therefore changed *)
(* A7, ended with an error raised and the context is the one at its entry  *)
C2_Witness ==
  /\ last.kind = "raised"
  /\ last.nesting > 0
  /\ last.state.sp # last.entry_cpu.a7
  /\ cpu = last.entry_cpu

(* the step is the CPU executing the RESET opcode at the ret_addr of the   *)
(* current run                                                             *)
ResetAtRetAddr ==
  /\ Len(frames) > 0
  /\ Len(frames') = Len(frames)
  /\ Len(run_states) > 0
  /\ ~end_req
  /\ cpu' # cpu
  /\ cpu'.pc - 2 = get_cur_run_state(run_states).ret_addr
  /\ HoldsReset(mem, cpu'.pc - 2)

(* C3: when the guest executes the RESET opcode at the ret_addr of the     *)
(* current run, the run is done, cpu.end() was called and the RunState's   *)
(* error is None, whatever A7 holds at that moment.                        *)
C3_NormalTermination ==
  [][ResetAtRetAddr =>
       /\ get_cur_run_state(run_states').done
       /\ end_req'
       /\ get_cur_run_state(run_states').error = NoError]_vars

(* C4: a run() that ends with an error raises NestedCPURunError wrapping   *)
(* that error, into the trap handler of the enclosing run, if it was nested *)
(* or raise_on_main_run is set; otherwise, and whenever the error is None, *)
(* it returns its RunState and raises nothing.                             *)
C4_RaiseRule ==
  RunEnded =>
    /\ last.kind = "raised" <=>
         /\ last.state.error # NoError
         /\ (last.nesting > 0 \/ raise_on_main_run)
    /\ last.kind = "raised" =>
         /\ last.raised.kind = "NestedCPURunError"
         /\ last.raised.inner = last.state.error
         /\ Len(frames) > 0 => Top.pos = "trap_exc" /\ Top.exc = last.raised
    /\ last.kind = "returned" =>
         /\ last.raised = NoError
         /\ Len(frames) > 0 => Top.pos = "trap" /\ Top.exc = NoError

(* a top-level run ended with an error and returned its RunState *)
C4_Witness ==
  /\ last.kind = "returned"
  /\ last.nesting = 0
  /\ last.state.error # NoError
  /\ ~raise_on_main_run

(* C5: the ret_addr of every stacked run at a depth below run_max_nesting  *)
(* is one of the run_max_nesting slots from run_reset_addr on and holds a  *)
(* RESET opcode, is neither reset_exvec_addr nor shutdown_trap_addr, and   *)
(* differs from the ret_addr of every other stacked run.                   *)
C5_RetAddrSlots ==
  \A i \in 1 .. Len(run_states) :
    i <= run_max_nesting =>
      /\ \E k \in 0 .. run_max_nesting - 1 :
           run_states[i].ret_addr = RunResetAddr(k)
      /\ HoldsReset(mem, run_states[i].ret_addr)
      /\ run_states[i].ret_addr \notin {reset_exvec_addr, shutdown_trap_addr}
      /\ \A j \in 1 .. Len(run_states) :
           j # i => run_states[j].ret_addr # run_states[i].ret_addr

(* C6: the ret_addr in the RunState of the run at nesting depth d is       *)
(* run_reset_addr + 2 * d.                                                 *)
C6_RetAddrStride ==
  \A i \in 1 .. Len(run_states) :
    run_states[i].ret_addr = run_reset_addr + 2 * (i - 1)

(* C7: each of the 254 exception vectors at 8, 12 .. 0x3FC holds           *)
(* reset_exvec_addr.                                                       *)
C7_ExceptionVectors == \A a \in VecAddrs : Peek(mem, a) = reset_exvec_addr

(* C8 as stated: when a run() that got past its stack wiring has ended,    *)
(* the words at 0 and 4 equal the current mem0 and mem4.                   *)
C8_ZeroPageAfterRun ==
  RunEnded => mem[0] = mem0 /\ mem[4] = mem4

(* C8: when a run() that got past its stack wiring has ended, the words at *)
(* 0 and 4 equal the mem0 and mem4 that were current when the most recent  *)
(* reset pulse completed; a set_zero_mem made by a trap handler during the *)
(* run reaches memory with the next reset pulse.                           *)
C8_ZeroPageAsOfPulse ==
  RunEnded => mem[0] = zero_written[1] /\ mem[4] = zero_written[2]

(* a run that wrote back non-zero words ended after a trap handler changed *)
(* mem0, mem4                                                              *)
C8_Witness ==
  /\ RunEnded
  /\ zero_written # <<0, 0>>
  /\ zero_written # <<mem0, mem4>>
  /\ mem[0] = zero_written[1]
  /\ mem[4] = zero_written[2]

(* C9 as stated: outside the reset pulse the words at 0 and 4 equal the    *)
(* current mem0 and mem4.                                                  *)
C9_ZeroPageCurrent ==
  ~MidReset => mem[0] = mem0 /\ mem[4] = mem4

(* C9: outside the reset pulse the words at 0 and 4 hold what the most     *)
(* recent reset pulse wrote back (zeros before the first run); they equal  *)
(* the current mem0 and mem4 unless set_zero_mem changed them since.       *)
C9_ZeroPageInvariant ==
  ~MidReset =>
    /\ <<mem[0], mem[4]>> = zero_written
    /\ zero_written = <<mem0, mem4>> => mem[0] = mem0 /\ mem[4] = mem4

(* set_zero_mem was called with non-zero words before a run whose reset    *)
(* pulse has completed: the guest sees them                                *)
C9_Witness ==
  /\ Len(frames) > 0
  /\ Top.pos = "exec"
  /\ mem0 # 0
  /\ zero_written = <<mem0, mem4>>
  /\ mem[0] = mem0
  /\ mem[4] = mem4

(* C10: a run with max_cycles = k > 0 does not start another slice once k  *)
(* cycles are accumulated; a run that ended with neither done nor an error  *)
(* had a cap k > 0, returned its RunState and reports cycles >= k reached  *)
(* with its last slice; without a cap a run ends only done or on an error. *)
C10_CycleCap ==
  /\ \A i \in 1 .. Len(frames) :
       frames[i].max_cycles > 0 => frames[i].total_cycles < frames[i].max_cycles
  /\ RunEnded /\ last.state.error = NoError /\ ~last.state.done =>
       /\ last.max_cycles > 0
       /\ last.kind = "returned"
       /\ last.state.cycles >= last.max_cycles
       /\ last.state.cycles < last.max_cycles + CyclesPerRun
  /\ RunEnded /\ last.max_cycles = 0 =>
       last.state.done \/ last.state.error # NoError

(* a capped run returned after two slices, not done and without an error *)
C10_Witness ==
  /\ last.kind = "returned"
  /\ last.max_cycles > 0
  /\ last.state.cycles > CyclesPerRun
  /\ ~last.state.done
  /\ last.state.error = NoError

(* C11: a top-level run started with a shutdown hook installed pushes the  *)
(* shutdown trap address; once such a run is done without an error, by its *)
(* guest returning, the hook was invoked exactly once, and it is never      *)
(* invoked more than once on the return path; a nested run pushes no       *)
(* shutdown trap address and invokes no hook.                              *)
C11_ShutdownOnce ==
  /\ \A i \in 1 .. Len(frames) :
       /\ frames[i].hooks <= 1
       /\ frames[i].nesting > 0 => ~frames[i].pushed /\ frames[i].hooks = 0
       /\ frames[i].hooks = 1 => frames[i].pushed
       /\ (/\ frames[i].pushed
           /\ frames[i].pos # "pulse"
           /\ run_states[i].done
           /\ run_states[i].error = NoError) => frames[i].hooks = 1
  /\ RunEnded =>
       /\ last.hooks <= 1
       /\ last.nesting > 0 => ~last.pushed /\ last.hooks = 0
       /\ last.pushed /\ last.state.done /\ last.state.error = NoError =>
            last.hooks = 1

(* a top-level run with a shutdown hook returned done and without an error *)
(* after one invocation of the hook                                        *)
C11_Witness ==
  /\ last.kind = "returned"
  /\ last.nesting = 0
  /\ last.pushed
  /\ last.state.done
  /\ last.state.error = NoError
  /\ last.hooks = 1

(* C12: the run stack holds one RunState for every run() activation that   *)
(* is past its push, in the order of the activations; the guest executes   *)
(* only with a non-empty run stack; when a run() has returned or raised    *)
(* the nesting is the one at its entry, and it is 0 when no run() is in    *)
(* progress.                                                               *)
C12_RunStackDiscipline ==
  /\ Len(run_states) =
       Cardinality({i \in 1 .. Len(frames) : frames[i].pos # "pulse"})
  /\ \A i \in 1 .. Len(frames) :
       /\ frames[i].nesting = i - 1
       /\ frames[i].pos = "pulse" => i = Len(frames)
       /\ frames[i].pos # "pulse" =>
            /\ run_states[i].pc = frames[i].pc
            /\ run_states[i].ret_addr = frames[i].ret_addr
  /\ GuestRuns => Len(run_states) > 0
  /\ RunEnded => get_run_nesting = last.nesting
  /\ Len(frames) = 0 => get_run_nesting = 0

(* a nested run has raised NestedCPURunError and the nesting is back at 1 *)
C12_Witness ==
  /\ last.kind = "raised"
  /\ last.nesting = 1
  /\ get_run_nesting = 1
  /\ Len(frames) = 1

(* the step is the CPU executing a RESET opcode at address a *)
ResetAt(a) ==
  /\ Len(frames) > 0
  /\ Len(frames') = Len(frames)
  /\ Len(run_states) > 0
  /\ ~end_req
  /\ cpu' # cpu
  /\ cpu'.pc - 2 = a
  /\ HoldsReset(mem, a)

(* C13: a RESET executed at reset_exvec_addr ends the current run as a     *)
(* fault, InvalidCPUStateError "m68k Exception #n" with n the word at [A7] *)
(* divided by 4, done and cpu.end(); a RESET executed at any other address *)
(* that is not the ret_addr of the current run records "Unexpected RESET   *)
(* opcode".                                                                *)
C13_ExceptionVectorFault ==
  [][/\ ResetAt(reset_exvec_addr) =>
          /\ get_cur_run_state(run_states').done
          /\ end_req'
          /\ get_cur_run_state(run_states').error =
               Err("InvalidCPUStateError: m68k Exception",
                   Peek(mem, cpu'.a7) \div 4)
     /\ \A a \in CodeAddrs :
          (/\ ResetAt(a)
           /\ a # reset_exvec_addr
           /\ a # get_cur_run_state(run_states).ret_addr) =>
            /\ get_cur_run_state(run_states').done
            /\ end_req'
            /\ get_cur_run_state(run_states').error =
                 Err("InvalidCPUStateError: Unexpected RESET opcode", a)]_vars

(* the step is a NestedCPURunError leaving the trap handler it was raised  *)
(* into, uncaught                                                          *)
NestedErrorUncaught ==
  /\ Len(frames) > 0
  /\ Top.pos = "trap_exc"
  /\ Top.exc.kind = "NestedCPURunError"
  /\ Len(frames') = Len(frames)
  /\ frames'[Len(frames)].pos = "exec"

(* C14: when the NestedCPURunError of a nested run leaves the trap handler *)
(* uncaught, the enclosing RunState gets it as its error, is done and      *)
(* cpu.end() is called; a run with such an error executes no further guest *)
(* code, and when it ends nested or with raise_on_main_run it raises in    *)
(* turn, into the trap handler of the run enclosing it.                    *)
C14_NestedErrorPropagates ==
  /\ [][NestedErrorUncaught =>
          /\ get_cur_run_state(run_states').error = Top.exc
          /\ get_cur_run_state(run_states').done
          /\ end_req']_vars
  /\ [](\A i \in 1 .. Len(run_states) :
          (/\ run_states[i].error.kind = "NestedCPURunError"
           /\ frames[i].pos = "exec") =>
             /\ run_states[i].done
             /\ i = Len(run_states) => end_req /\ ~GuestRuns)
  /\ []((/\ RunEnded
         /\ last.state.error.kind = "NestedCPURunError"
         /\ (last.nesting > 0 \/ raise_on_main_run)) =>
           /\ last.kind = "raised"
           /\ last.raised.inner = last.state.error
           /\ Len(frames) > 0 =>
                Top.pos = "trap_exc" /\ Top.exc = last.raised)

(* the error of a run at nesting 2 went uncaught through the run at        *)
(* nesting 1, which raised it on into the trap handler of the top-level run *)
C14_Witness ==
  /\ last.kind = "raised"
  /\ last.nesting = 1
  /\ last.state.error.kind = "NestedCPURunError"
  /\ last.state.error.inner.kind # "None"
  /\ Len(frames) = 1
  /\ Top.pos = "trap_exc"

BadAddrs == {ram_total, ram_total + 4}

(* C16: an invalid-access notification for a run without an error records *)
(* InvalidMemoryAccessError for the address, marks the run done and calls  *)
(* cpu.end(); a notification while the run's error is pending changes      *)
(* nothing of the run stack and does not call cpu.end().                   *)
C16_FirstFaultWins ==
  CurRunStateAssert(run_states) =>
    \A a \in BadAddrs :
      LET before == get_cur_run_state(run_states)
          rs     == invalid_mem_access(run_states, a)
          after  == get_cur_run_state(rs)
      IN  /\ Len(rs) = Len(run_states)
          /\ \A i \in 1 .. Len(rs) - 1 : rs[i] = run_states[i]
          /\ before.error = NoError =>
               /\ after = [before EXCEPT
                             !.error = Err("InvalidMemoryAccessError", a),
                             !.done = TRUE]
               /\ InvalidEnds(run_states)
          /\ before.error # NoError =>
               /\ rs = run_states
               /\ ~InvalidEnds(run_states)
          /\ invalid_mem_access(rs, a) = rs
          /\ ~InvalidEnds(rs)

(* a trap handler goes on after its invalid access was recorded and the    *)
(* slice was ended: its further accesses meet the pending error            *)
C16_Witness ==
  /\ Len(frames) > 0
  /\ Top.pos = "trap"
  /\ end_req
  /\ get_cur_run_state(run_states).error = Err("InvalidMemoryAccessError", ram_total)
  /\ get_cur_run_state(run_states).done

(* C17: run() without sp at nesting 0 raises ValueError and changes        *)
(* nothing: no memory write, no reset pulse, no RunState; at a nesting > 0 *)
(* it takes A7 of the enclosing run minus 4 as the stack pointer, writes   *)
(* ret_addr there and records that stack pointer in its RunState.          *)
C17_SpOmitted ==
  /\ [][last'.kind = "ValueError" =>
          /\ Len(run_states) = 0
          /\ UNCHANGED <<mem, mem0, mem4, cpu, run_states, frames, end_req>>]_vars
  /\ [](\A i \in 1 .. Len(frames) :
          frames[i].sp_arg = NoSp =>
            /\ frames[i].nesting > 0
            /\ frames[i].sp = frames[i].entry_cpu.a7 - 4
            /\ frames[i].pos = "pulse" /\ IsValid(frames[i].sp) =>
                 Peek(mem, frames[i].sp) = frames[i].ret_addr
            /\ frames[i].pos # "pulse" => run_states[i].sp = frames[i].sp)

(* a nested run started without sp is executing on the stack of the        *)
(* enclosing run, one long word below its A7                               *)
C17_Witness ==
  /\ Len(frames) = 2
  /\ Top.sp_arg = NoSp
  /\ Top.pos = "exec"
  /\ get_cur_run_state(run_states).sp = Top.entry_cpu.a7 - 4
  /\ IsValid(Top.sp)

(* C18: the assertion of get_cur_run_state holds whenever a fault handler  *)
(* is invoked, also for the invalid-access notifications of run()'s own    *)
(* memory writes at nesting 0: no run() call ends with its AssertionError. *)
C18_AssertionHolds == last.kind # "AssertionError"

(* C19: the error of a RunState, once set, is not replaced while its run   *)
(* is on the run stack, and the run ends with that error.                  *)
C19_ErrorKept ==
  [][/\ \A i \in 1 .. Len(run_states) :
          i <= Len(run_states') /\ run_states[i].error # NoError =>
            run_states'[i].error = run_states[i].error
     /\ (/\ Len(run_states') = Len(run_states) - 1
         /\ get_cur_run_state(run_states).error # NoError) =>
           last'.state.error = get_cur_run_state(run_states).error]_vars

(* C20: starting a nested run leaves the RunStates of the enclosing runs   *)
(* as they are, also when the write of ret_addr to [sp] is outside RAM.    *)
C20_EnclosingUntouched ==
  [][/\ Len(frames') = Len(frames) + 1 => run_states' = run_states
     /\ Len(run_states') = Len(run_states) + 1 =>
          SubSeq(run_states', 1, Len(run_states)) = run_states]_vars

====
